---- MODULE Spec2Model ----
(***************************************************************************)
(* Model of partfinder/alignment.py: the phylip grammar and its parser,    *)
(* the Alignment entity (from_parser_output, read, write_phylip, same_as)  *)
(* and SubsetAlignment.  Texts are sequences of one-character strings;     *)
(* Python dictionaries are functions kept in a heap of mappings, so that   *)
(* two objects sharing one dictionary is something the model can express.  *)
(***************************************************************************)
EXTENDS Integers, Sequences, FiniteSets, TLC

(***************************************************************************)
(* Bounds of the model.                                                    *)
(***************************************************************************)
MaxRecs == 3
MaxSeqLen == 2
MaxCols == 2
MaxSpecies == 2

(***************************************************************************)
(* Program constants.                                                      *)
(***************************************************************************)
NAME_MAX == 100
NAME_WRITTEN == 99

(* sequence_len = None, in from_parser_output before the first record *)
None == -1

(***************************************************************************)
(* Character classes of the grammar.                                       *)
(***************************************************************************)
alphas ==
    {"a","b","c","d","e","f","g","h","i","j","k","l","m",
     "n","o","p","q","r","s","t","u","v","w","x","y","z",
     "A","B","C","D","E","F","G","H","I","J","K","L","M",
     "N","O","P","Q","R","S","T","U","V","W","X","Y","Z"}

nums == {"0","1","2","3","4","5","6","7","8","9"}

(* The grave accent, also a name character of the grammar, cannot be      *)
(* written in a string here; no text of the model contains it.            *)
NameChars ==
    alphas \cup nums \cup
    {"!","#","$","%","&","'","*","+","-",".","/",";","<","=",">","?","@",
     "[","\\","]","^","_","{","|","}","~"}

BASES == alphas \cup {"?", ".", "-"}

DefaultWhite == {" ", "\t", "\n", "\r"}

LineWhite == {" ", "\t"}

(***************************************************************************)
(* Helpers on texts.  Positions are 1-based; a position of Len(s) + 1 is   *)
(* the end of the text.                                                    *)
(***************************************************************************)
Min(a, b) == IF a < b THEN a ELSE b

RECURSIVE Rep(_, _)
Rep(c, n) == IF n = 0 THEN << >> ELSE <<c>> \o Rep(c, n - 1)

RECURSIVE SkipWhite(_, _, _)
SkipWhite(s, loc, white) ==
    IF loc <= Len(s) /\ s[loc] \in white
    THEN SkipWhite(s, loc + 1, white)
    ELSE loc

RECURSIVE ScanWhile(_, _, _, _)
ScanWhile(s, loc, chars, maxloc) ==
    IF loc < maxloc /\ s[loc] \in chars
    THEN ScanWhile(s, loc + 1, chars, maxloc)
    ELSE loc

RECURSIVE ScanLine(_, _)
ScanLine(s, loc) ==
    IF loc <= Len(s) /\ s[loc] # "\n" THEN ScanLine(s, loc + 1) ELSE loc

NoMatch == [ok |-> FALSE, loc |-> 0, tok |-> << >>]

Match(loc, tok) == [ok |-> TRUE, loc |-> loc, tok |-> tok]

(***************************************************************************)
(* Word(chars, max): skip the element's white space, then take a run of    *)
(* chars.  With a max the run stops after max characters and the match     *)
(* fails when the next character would continue the word.  max = 0 stands  *)
(* for no limit.  An operator named ...At, ...To, ...Then takes the result  *)
(* of the step before it as a parameter.                                   *)
(***************************************************************************)
WordTooLong(s, e, chars, max) ==
    max # 0 /\ e <= Len(s) /\ s[e] \in chars

MaxLoc(s, p, max) ==
    IF max = 0 THEN Len(s) + 1 ELSE Min(p + max, Len(s) + 1)

WordTo(s, p, e, chars, max) ==
    IF WordTooLong(s, e, chars, max) THEN NoMatch
    ELSE Match(e, SubSeq(s, p, e - 1))

WordAt(s, p, chars, max) ==
    IF p > Len(s) \/ s[p] \notin chars THEN NoMatch
    ELSE WordTo(s, p, ScanWhile(s, p + 1, chars, MaxLoc(s, p, max)), chars, max)

Word(s, loc, white, chars, max) ==
    WordAt(s, SkipWhite(s, loc, white), chars, max)

DigitValue(c) ==
    CASE c = "0" -> 0 [] c = "1" -> 1 [] c = "2" -> 2 [] c = "3" -> 3
      [] c = "4" -> 4 [] c = "5" -> 5 [] c = "6" -> 6 [] c = "7" -> 7
      [] c = "8" -> 8 [] c = "9" -> 9

RECURSIVE int(_)
int(x) ==
    IF x = << >> THEN 0
    ELSE 10 * int(SubSeq(x, 1, Len(x) - 1)) + DigitValue(x[Len(x)])

(* INTEGER = Word(nums), with the parse action int(x[0]) *)
IntegerThen(w) == IF w.ok THEN Match(w.loc, int(w.tok)) ELSE NoMatch

INTEGER(s, loc) == IntegerThen(Word(s, loc, DefaultWhite, nums, 0))

(* header = Group(INTEGER + INTEGER + Suppress(restOfLine)) *)
HeaderRest(s, c, l) ==
    IF ~l.ok THEN NoMatch
    ELSE Match(ScanLine(s, l.loc),
               [species_count |-> c.tok, sequence_length |-> l.tok])

HeaderThen(s, c) ==
    IF ~c.ok THEN NoMatch ELSE HeaderRest(s, c, INTEGER(s, c.loc))

header(s, loc) == HeaderThen(s, INTEGER(s, loc))

sequence_name(s, loc) == Word(s, loc, DefaultWhite, NameChars, NAME_MAX)

bases(s, loc) == Word(s, loc, LineWhite, BASES, 0)

OneOrMore(r) == IF r.tok = << >> THEN NoMatch ELSE r

(* base_chain = OneOrMore(bases), joined *)
RECURSIVE MoreBases(_, _, _, _)
MoreBases(s, loc, acc, b) ==
    IF b.ok THEN MoreBases(s, b.loc, acc \o b.tok, bases(s, b.loc))
    ELSE Match(loc, acc)

base_chain(s, loc) == OneOrMore(MoreBases(s, loc, << >>, bases(s, loc)))

(* LineEnd: a newline, or the end of the text *)
LineEndAt(s, p) ==
    IF p <= Len(s)
    THEN IF s[p] = "\n" THEN Match(p + 1, << >>) ELSE NoMatch
    ELSE IF p = Len(s) + 1 THEN Match(p + 1, << >>) ELSE NoMatch

LineEnd(s, loc) == LineEndAt(s, SkipWhite(s, loc, LineWhite))

(* seq = Group(sequence_name + base_chain) + Suppress(LineEnd()) *)
SeqDone(n, b, e) ==
    IF ~e.ok THEN NoMatch ELSE Match(e.loc, <<n.tok, b.tok>>)

SeqEnd(s, n, b) ==
    IF ~b.ok THEN NoMatch ELSE SeqDone(n, b, LineEnd(s, b.loc))

SeqThen(s, n) ==
    IF ~n.ok THEN NoMatch ELSE SeqEnd(s, n, base_chain(s, n.loc))

seq(s, loc) == SeqThen(s, sequence_name(s, loc))

(* sequences = OneOrMore(seq) *)
RECURSIVE MoreSeqs(_, _, _, _)
MoreSeqs(s, loc, acc, r) ==
    IF r.ok THEN MoreSeqs(s, r.loc, Append(acc, r.tok), seq(s, r.loc))
    ELSE Match(loc, acc)

sequences(s, loc) == OneOrMore(MoreSeqs(s, loc, << >>, seq(s, loc)))

stringEnd(s, loc) == SkipWhite(s, loc, DefaultWhite) > Len(s)

(* root_parser = phylip_parser() + stringEnd *)
ParserEnd(s, h, q) ==
    IF ~q.ok \/ ~stringEnd(s, q.loc) THEN NoMatch
    ELSE Match(q.loc, [header |-> h.tok, sequences |-> q.tok])

ParserThen(s, h) ==
    IF ~h.ok THEN NoMatch ELSE ParserEnd(s, h, sequences(s, h.loc))

phylip_parser(s) == ParserThen(s, header(s, 1))

(***************************************************************************)
(* AlignmentParser.parse: the grammar, then the two header checks.  Every  *)
(* failure of the program is an AlignmentError; the model names each by    *)
(* the place that raises it.                                               *)
(***************************************************************************)
(* the header length compared with the last record instead of the first *)
LengthDiffersLast(defs) ==
    Len(defs.sequences[Len(defs.sequences)][2]) # defs.header.sequence_length

CountDiffers(defs) == Len(defs.sequences) # defs.header.species_count

LengthDiffers(defs) == Len(defs.sequences[1][2]) # defs.header.sequence_length

ParseFailed(err) == [err |-> err, recs |-> << >>]

ParseThen(defs) ==
    IF ~defs.ok THEN ParseFailed("ParseSyntaxError")
    ELSE IF CountDiffers(defs.tok) THEN ParseFailed("HeaderCountMismatchError")
         ELSE IF LengthDiffers(defs.tok)
              THEN ParseFailed("HeaderLengthMismatchError")
              ELSE [err |-> "ok", recs |-> defs.tok.sequences]

parse(s) == ParseThen(phylip_parser(s))

(***************************************************************************)
(* Alignment.from_parser_output: the loop over the records, on the local   *)
(* dictionary species and the local sequence_len.                          *)
(***************************************************************************)
EmptyDict == << >>

(* the repeat check left out: a later record overwrites an earlier one *)
IsRepeatedNever(spec, species) == FALSE

IsRepeated(spec, species) == spec \in DOMAIN species

Assign(species, spec, sq) == (spec :> sq) @@ species

(* only a longer sequence counted as a mismatch *)
LenExceeds(sq, sequence_len) == Len(sq) > sequence_len

LenDiffers(sq, sequence_len) == Len(sq) # sequence_len

RECURSIVE BuildLoop(_, _, _, _)
BuildLoop(defs, i, species, sequence_len) ==
    IF i > Len(defs)
    THEN [err |-> "ok", at |-> 0, species |-> species,
          sequence_len |-> sequence_len]
    ELSE LET spec == defs[i][1]
             sq == defs[i][2]
         IN  IF IsRepeated(spec, species)
             THEN [err |-> "DuplicateSpeciesError", at |-> i,
                   species |-> species, sequence_len |-> sequence_len]
             ELSE IF sequence_len = None
                  THEN BuildLoop(defs, i + 1, Assign(species, spec, sq), Len(sq))
                  ELSE IF LenDiffers(sq, sequence_len)
                       THEN [err |-> "SequenceLengthMismatchError", at |-> i,
                             species |-> Assign(species, spec, sq),
                             sequence_len |-> sequence_len]
                       ELSE BuildLoop(defs, i + 1, Assign(species, spec, sq),
                                      sequence_len)

(***************************************************************************)
(* Alignment.write_phylip: the text written for a mapping, its keys taken  *)
(* in the order the dictionary iterates them.                              *)
(***************************************************************************)
DigitChar(d) ==
    CASE d = 0 -> "0" [] d = 1 -> "1" [] d = 2 -> "2" [] d = 3 -> "3"
      [] d = 4 -> "4" [] d = 5 -> "5" [] d = 6 -> "6" [] d = 7 -> "7"
      [] d = 8 -> "8" [] d = 9 -> "9"

RECURSIVE FormatInt(_)
FormatInt(n) ==
    IF n < 10 THEN <<DigitChar(n)>>
    ELSE FormatInt(n \div 10) \o <<DigitChar(n % 10)>>

shortened(species) ==
    SubSeq(species, 1, Min(Len(species), NAME_WRITTEN)) \o <<" ", " ", " ", " ">>

RECURSIVE PhylipLines(_, _, _)
PhylipLines(m, order, i) ==
    IF i > Len(order) THEN << >>
    ELSE shortened(order[i]) \o m[order[i]] \o <<"\n">>
         \o PhylipLines(m, order, i + 1)

PhylipText(m, order) ==
    FormatInt(Cardinality(DOMAIN m)) \o <<" ">> \o FormatInt(Len(m[order[1]]))
    \o <<"\n">> \o PhylipLines(m, order, 1)

(* the orders in which a dictionary may iterate its keys *)
Orders(m) ==
    {o \in [1..Cardinality(DOMAIN m) -> DOMAIN m] :
        \A i, j \in DOMAIN o : i # j => o[i] # o[j]}

(***************************************************************************)
(* SubsetAlignment.__init__: the checks and the projection.                *)
(***************************************************************************)
RECURSIVE max(_)
max(columns) ==
    IF Len(columns) = 1 THEN columns[1]
    ELSE LET m == max(Tail(columns)) IN
         IF columns[1] > m THEN columns[1] ELSE m

(* Python 2 orders None below every integer *)
SiteTooLarge(site_max, sequence_len) ==
    IF sequence_len = None THEN TRUE ELSE site_max > sequence_len

(* old_sequence[i] raises IndexError; columns are offsets from 0 *)
IndexFails(old_sequence, columns) ==
    \E j \in DOMAIN columns : columns[j] >= Len(old_sequence)

(* the columns taken from last to first *)
new_sequence_reversed(old_sequence, columns) ==
    [j \in 1..Len(columns) |-> old_sequence[columns[Len(columns) + 1 - j] + 1]]

new_sequence(old_sequence, columns) ==
    [j \in 1..Len(columns) |-> old_sequence[columns[j] + 1]]

ProjectDict(m, columns) ==
    [species_name \in DOMAIN m |-> new_sequence(m[species_name], columns)]

(***************************************************************************)
(* State.                                                                  *)
(*   objs     the Alignment objects that exist, by the name of the         *)
(*            variable holding them: fields species (a reference into      *)
(*            heap) and sequence_len                                       *)
(*   heap     the dictionaries that are referenced, by identity            *)
(*   file     the file at the path: whether it exists, its text, and who   *)
(*            wrote it ("given" for a text put there from outside)         *)
(*   input    the arguments of the run: a record list, a column list, and  *)
(*            how the text given at the path is made up from the records   *)
(*   outcome  the last operation, its arguments and how it ended           *)
(***************************************************************************)
VARIABLES objs, heap, file, input, outcome

vars == <<objs, heap, file, input, outcome>>

NoFile == [exists |-> FALSE, text |-> << >>, by |-> ""]

Did(op, obj, src, recs, cols, err, at) ==
    [op |-> op, obj |-> obj, src |-> src, recs |-> recs, cols |-> cols,
     err |-> err, at |-> at]

Started == Did("start", "", "", << >>, << >>, "ok", 0)

(* the mapping and the length an object holds *)
Species(os, h, o) == h[os[o].species]

Content(os, h, o) ==
    [species |-> Species(os, h, o), sequence_len |-> os[o].sequence_len]

(* a dictionary identity that no live object holds *)
FreshDict == CHOOSE d \in 1..(Cardinality(DOMAIN heap) + 1) : d \notin DOMAIN heap

(* dictionaries no longer referenced are reclaimed *)
Collect(h, os) ==
    [d \in {os[o].species : o \in DOMAIN os} |-> h[d]]

(***************************************************************************)
(* Alignment.__init__                                                      *)
(***************************************************************************)
New(o) ==
    LET d == FreshDict
        os == (o :> [species |-> d, sequence_len |-> 0]) @@ objs
    IN  /\ objs' = os
        /\ heap' = Collect((d :> EmptyDict) @@ heap, os)
        /\ outcome' = Did("new", o, "", << >>, << >>, "ok", 0)
        /\ UNCHANGED <<file, input>>

(***************************************************************************)
(* Alignment.from_parser_output.  The local dictionary is a new one; the   *)
(* object's fields are overwritten after the loop, when nothing raised.    *)
(***************************************************************************)
(* the fields overwritten whether or not the loop raised *)
OverwrittenAlways(o, r, d) ==
    [objs EXCEPT ![o] = [species |-> d, sequence_len |-> r.sequence_len]]

(* species overwritten, sequence_len left as it was *)
OverwrittenSpeciesOnly(o, r, d) ==
    IF r.err = "ok" THEN [objs EXCEPT ![o].species = d] ELSE objs

Overwritten(o, r, d) ==
    IF r.err = "ok"
    THEN [objs EXCEPT ![o] = [species |-> d, sequence_len |-> r.sequence_len]]
    ELSE objs

Store(o, r) ==
    LET d == FreshDict
        os == Overwritten(o, r, d)
    IN  /\ objs' = os
        /\ heap' = Collect((d :> r.species) @@ heap, os)

Built(op, o, defs, r) ==
    /\ Store(o, r)
    /\ outcome' = Did(op, o, "", defs, << >>, r.err, r.at)

FromParserOutput(o, defs) ==
    /\ o \in DOMAIN objs
    /\ Built("build", o, defs, BuildLoop(defs, 1, EmptyDict, None))
    /\ UNCHANGED <<file, input>>

(***************************************************************************)
(* Alignment.read                                                          *)
(***************************************************************************)
Raised(err) ==
    [err |-> err, at |-> 0, species |-> EmptyDict, sequence_len |-> None]

ReadThen(p) ==
    IF p.err # "ok" THEN Raised(p.err)
    ELSE BuildLoop(p.recs, 1, EmptyDict, None)

(* the text read without asking whether the file exists *)
readUnguarded(f) == ReadThen(parse(f.text))

read(f) ==
    IF ~f.exists THEN Raised("FileNotFoundError") ELSE ReadThen(parse(f.text))

Read(o) ==
    /\ o \in DOMAIN objs
    /\ Built("read", o, << >>, read(file))
    /\ UNCHANGED <<file, input>>

(***************************************************************************)
(* Alignment.write, with alignment_format = 'phy': write_phylip.  The file *)
(* is opened for writing before the first value is asked for, so writing   *)
(* an Alignment without species leaves an empty file behind.               *)
(***************************************************************************)
Write(o) ==
    /\ o \in DOMAIN objs
    /\ LET m == Species(objs, heap, o) IN
         IF DOMAIN m = {}
         THEN /\ file' = [exists |-> TRUE, text |-> << >>, by |-> o]
              /\ outcome' = Did("write", o, "", << >>, << >>, "StopIteration", 0)
         ELSE \E order \in Orders(m) :
              /\ file' = [exists |-> TRUE, text |-> PhylipText(m, order), by |-> o]
              /\ outcome' = Did("write", o, "", << >>, << >>, "ok", 0)
    /\ UNCHANGED <<objs, heap, input>>

(***************************************************************************)
(* SubsetAlignment(source, subset), assigned to S when it returns.         *)
(***************************************************************************)
(* self.species bound to the dictionary of the source *)
InitSpeciesShared(source) == objs[source].species

(* Alignment.__init__(self): self.species is a dictionary of its own *)
InitSpecies(source) == FreshDict

project(source, columns) ==
    LET m == Species(objs, heap, source) IN
    IF columns = << >> THEN "ValueError"
    ELSE IF SiteTooLarge(max(columns), objs[source].sequence_len)
         THEN "ColumnOutOfRangeError"
         ELSE IF \E species_name \in DOMAIN m : IndexFails(m[species_name], columns)
              THEN "IndexError"
              ELSE IF DOMAIN m = {} THEN "EmptySubsetError" ELSE "ok"

FirstLen(m) == Len(m[CHOOSE species_name \in DOMAIN m : TRUE])

Project(source, columns) ==
    /\ source \in DOMAIN objs
    /\ LET err == project(source, columns)
           d == InitSpecies(source)
           m == ProjectDict(Species(objs, heap, source), columns)
           os == ("S" :> [species |-> d, sequence_len |-> FirstLen(m)]) @@ objs
       IN  /\ outcome' = Did("project", "S", source, << >>, columns, err, 0)
           /\ IF err = "ok"
              THEN /\ objs' = os
                   /\ heap' = Collect((d :> m) @@ heap, os)
              ELSE UNCHANGED <<objs, heap>>
    /\ UNCHANGED <<file, input>>

(***************************************************************************)
(* The environment: a text is put at the path, or the file is removed.     *)
(***************************************************************************)
Declared(inp) ==
    [count |-> Len(inp.recs) + inp.dcount,
     length |-> Len(inp.recs[1][2]) + inp.dlen]

Spaced(sq) ==
    IF Len(sq) < 2 THEN <<"\t">> \o sq
    ELSE <<"\t">> \o <<sq[1]>> \o <<" ">> \o Tail(sq)

RecordLine(rec, layout) ==
    IF layout = "spaced" THEN <<"\n">> \o rec[1] \o Spaced(rec[2]) \o <<" ", "\n">>
    ELSE rec[1] \o <<" ">> \o rec[2] \o <<"\n">>

RECURSIVE RecordLines(_, _, _)
RecordLines(recs, layout, i) ==
    IF i > Len(recs) THEN << >>
    ELSE RecordLine(recs[i], layout) \o RecordLines(recs, layout, i + 1)

MkText(inp) ==
    LET head == FormatInt(Declared(inp).count) \o <<" ">>
                \o FormatInt(Declared(inp).length) \o <<"\n">>
        body == RecordLines(inp.recs, inp.layout, 1)
    IN  CASE inp.layout = "noeol" -> head \o SubSeq(body, 1, Len(body) - 1)
          [] inp.layout = "badbase" -> head \o SubSeq(body, 1, Len(body) - 1)
                                       \o <<"1", "\n">>
          [] inp.layout = "trailing" -> head \o body \o <<",", "\n">>
          [] inp.layout = "noheader" -> body
          [] OTHER -> head \o body

FileOf(inp) ==
    IF inp.layout = "absent" THEN NoFile
    ELSE [exists |-> TRUE, text |-> MkText(inp), by |-> "given"]

PutFile ==
    /\ ~file.exists
    /\ input.layout # "absent"
    /\ file' = FileOf(input)
    /\ outcome' = Did("put", "", "", << >>, << >>, "ok", 0)
    /\ UNCHANGED <<objs, heap, input>>

RemoveFile ==
    /\ file.exists
    /\ file' = NoFile
    /\ outcome' = Did("remove", "", "", << >>, << >>, "ok", 0)
    /\ UNCHANGED <<objs, heap, input>>

(***************************************************************************)
(* Inputs.                                                                 *)
(***************************************************************************)
na == <<"a">>

nb == <<"b">>

Lists(records, n) == UNION {[1..k -> records] : k \in 0..n}

SyntaxOk == {"plain", "spaced", "noeol"}

SyntaxBad == {"badbase", "trailing", "noheader"}

(* reading: sequences alike, unlike with one length, and of two lengths *)
ReadSeqs == {<<"A">>, <<"C">>, <<"A", "A">>}

ReadLists == Lists({na, nb} \X ReadSeqs, MaxRecs)

Deltas == {0, 1} \X {0, -1}

Given(recs, d, layout) ==
    [recs |-> recs, dcount |-> d[1], dlen |-> d[2], layout |-> layout,
     cols |-> << >>]

ReadInputs ==
    {Given(recs, <<0, 0>>, "absent") : recs \in ReadLists}
    \cup
    {Given(recs, <<0, 0>>, layout) :
        recs \in ReadLists \ {<< >>}, layout \in SyntaxOk \cup SyntaxBad}
    \cup
    {Given(recs, d, "plain") : recs \in ReadLists \ {<< >>}, d \in Deltas \ {<<0, 0>>}}
    \cup
    {Given(recs, <<1, 0>>, "trailing") : recs \in ReadLists \ {<< >>}}

PriorLists == {<< <<na, <<"C">>>> >>}

(***************************************************************************)
(* Reading and building: one input per behaviour, an Alignment A that is   *)
(* built from record lists and reads the file.                             *)
(***************************************************************************)
InitRead ==
    /\ input \in ReadInputs
    /\ file = FileOf(input)
    /\ objs = ("A" :> [species |-> 1, sequence_len |-> 0])
    /\ heap = (1 :> EmptyDict)
    /\ outcome = Started

NextRead ==
    \/ Read("A")
    \/ FromParserOutput("A", input.recs)
    \/ \E defs \in PriorLists : FromParserOutput("A", defs)

SpecRead == InitRead /\ [][NextRead]_vars

(***************************************************************************)
(* What an input is, said without the parser: which stage of read it       *)
(* fails, and where a record list first repeats an identifier or first     *)
(* departs from the length of its first record.                            *)
(***************************************************************************)
Missing == ~file.exists

SyntaxDefect == input.layout \in SyntaxBad

CountDefect == input.dcount # 0

LengthDefect == input.dlen # 0

HeaderErrors == {"HeaderCountMismatchError", "HeaderLengthMismatchError"}

RecordErrors == {"DuplicateSpeciesError", "SequenceLengthMismatchError"}

Least(S) == IF S = {} THEN 0 ELSE CHOOSE i \in S : \A j \in S : i <= j

FirstRepeat(recs) ==
    Least({i \in DOMAIN recs : \E j \in 1..(i - 1) : recs[j][1] = recs[i][1]})

FirstOdd(recs) ==
    Least({i \in DOMAIN recs : Len(recs[i][2]) # Len(recs[1][2])})

AfterRead == outcome.op = "read" /\ file.by \in {"", "given"}

(* the read got as far as the grammar accepting the text *)
Parsed == AfterRead /\ ~Missing /\ ~SyntaxDefect

(* the last operation handed a record list to the construction loop *)
Constructing ==
    \/ outcome.op = "build"
    \/ Parsed /\ ~CountDefect /\ ~LengthDefect

Records == IF outcome.op = "build" THEN outcome.recs ELSE input.recs

(* the mapping a record list without repeats stands for *)
MappingOf(recs) ==
    [n \in {recs[i][1] : i \in DOMAIN recs} |->
        recs[CHOOSE i \in DOMAIN recs : recs[i][1] = n][2]]

(***************************************************************************)
(* C5 as stated: once the grammar accepts the text, parse fails with the   *)
(* header/count mismatch error if the declared count differs from the      *)
(* number of records, and with the header/length mismatch error if the     *)
(* declared length differs from the first record's; it returns the records *)
(* only when both agree.  Refuted by a header wrong in both numbers.       *)
(***************************************************************************)
C5_AsStated ==
    Parsed =>
        /\ CountDefect => outcome.err = "HeaderCountMismatchError"
        /\ LengthDefect => outcome.err = "HeaderLengthMismatchError"
        /\ outcome.err \notin HeaderErrors => ~CountDefect /\ ~LengthDefect

(***************************************************************************)
(* C5 amended: the count is checked first.  A wrong count gives the        *)
(* header/count mismatch error; a right count with a wrong length gives    *)
(* the header/length mismatch error; both are raised by the parser, before *)
(* the construction loop has seen a record; the records reach construction *)
(* only when both numbers agree.                                           *)
(***************************************************************************)
C5_HeaderAgreement ==
    Parsed =>
        /\ CountDefect => outcome.err = "HeaderCountMismatchError"
        /\ ~CountDefect /\ LengthDefect
              => outcome.err = "HeaderLengthMismatchError"
        /\ outcome.err \in HeaderErrors => outcome.at = 0
        /\ outcome.err \notin HeaderErrors => ~CountDefect /\ ~LengthDefect

C5_Witness ==
    /\ Parsed /\ ~CountDefect /\ LengthDefect
    /\ outcome.err = "HeaderLengthMismatchError"
    /\ Len(input.recs) > 1

(***************************************************************************)
(* C6 as stated: a record list with a repeated identifier, read or built,  *)
(* fails with the duplicate-species error whatever the sequences are.      *)
(* Refuted by a list whose length mismatch comes before the repeat.        *)
(***************************************************************************)
C6_AsStated ==
    Constructing /\ FirstRepeat(Records) # 0
        => outcome.err = "DuplicateSpeciesError"

(***************************************************************************)
(* C6 amended: a record list with a repeated identifier never yields an    *)
(* Alignment; it fails with the duplicate-species error at the second      *)
(* occurrence, whatever the two sequences are, unless a record before the  *)
(* second occurrence already differs in length from the first record, and  *)
(* then it fails there with the sequence-length-mismatch error.            *)
(***************************************************************************)
C6_DuplicateDetection ==
    Constructing /\ FirstRepeat(Records) # 0 =>
        LET k == FirstRepeat(Records)
            m == FirstOdd(Records)
        IN  /\ outcome.err \in RecordErrors
            /\ m = 0 \/ k <= m
                  => outcome.err = "DuplicateSpeciesError" /\ outcome.at = k
            /\ m # 0 /\ m < k
                  => outcome.err = "SequenceLengthMismatchError" /\ outcome.at = m

C6_Witness ==
    /\ AfterRead /\ Constructing
    /\ FirstRepeat(Records) = 2 /\ FirstOdd(Records) = 2
    /\ outcome.err = "DuplicateSpeciesError"

(***************************************************************************)
(* C7 as stated: a record list in which some record differs in length from *)
(* the first fails with the sequence-length-mismatch error at the first    *)
(* such record, with or without a header; a build succeeds only if every   *)
(* record has the first record's length.  Refuted by a second record that  *)
(* repeats the first identifier with another length.                       *)
(***************************************************************************)
C7_AsStated ==
    Constructing =>
        /\ FirstOdd(Records) # 0
              => /\ outcome.err = "SequenceLengthMismatchError"
                 /\ outcome.at = FirstOdd(Records)
        /\ outcome.err = "ok" => FirstOdd(Records) = 0

(***************************************************************************)
(* C7 amended: such a list never yields an Alignment; it fails with the    *)
(* sequence-length-mismatch error at the first record of another length,   *)
(* with or without a header, unless an identifier is repeated at or before *)
(* that record, and then it fails with the duplicate-species error.        *)
(***************************************************************************)
C7_LengthUniformity ==
    Constructing =>
        LET k == FirstRepeat(Records)
            m == FirstOdd(Records)
        IN  /\ m # 0 /\ (k = 0 \/ m < k)
                  => outcome.err = "SequenceLengthMismatchError" /\ outcome.at = m
            /\ m # 0 /\ k # 0 /\ k <= m
                  => outcome.err = "DuplicateSpeciesError" /\ outcome.at = k
            /\ outcome.err = "ok" => m = 0

C7_Witness ==
    /\ outcome.op = "build"
    /\ Len(Records) = 3 /\ FirstOdd(Records) = 2 /\ FirstRepeat(Records) = 3
    /\ Len(Records[3][2]) # Len(Records[1][2])
    /\ outcome.err = "SequenceLengthMismatchError" /\ outcome.at = 2

(***************************************************************************)
(* C9: read reports the defect of the earliest stage: a missing file, then *)
(* the syntax, then the header, then the records; with no defect it        *)
(* succeeds.                                                               *)
(***************************************************************************)
C9_DetectionOrder ==
    AfterRead =>
        LET recordDefect == FirstRepeat(input.recs) # 0 \/ FirstOdd(input.recs) # 0
            headerDefect == CountDefect \/ LengthDefect
        IN  CASE Missing -> outcome.err = "FileNotFoundError"
              [] ~Missing /\ SyntaxDefect -> outcome.err = "ParseSyntaxError"
              [] Parsed /\ headerDefect -> outcome.err \in HeaderErrors
              [] Parsed /\ ~headerDefect /\ recordDefect
                    -> outcome.err \in RecordErrors
              [] OTHER -> outcome.err = "ok"

C9_Witness ==
    /\ Parsed /\ CountDefect /\ FirstRepeat(input.recs) # 0
    /\ outcome.err = "HeaderCountMismatchError"

(***************************************************************************)
(* C10: a read or a build that fails leaves the species and sequence_len   *)
(* of its target as they were; one that succeeds replaces both, by the     *)
(* mapping of the records and the length of the first.                     *)
(***************************************************************************)
C10_Step ==
    outcome'.op \in {"read", "build"} =>
        LET o == outcome'.obj
            recs == IF outcome'.op = "build" THEN outcome'.recs ELSE input.recs
        IN  IF outcome'.err # "ok"
            THEN Content(objs', heap', o) = Content(objs, heap, o)
            ELSE Content(objs', heap', o) =
                    [species |-> MappingOf(recs),
                     sequence_len |-> IF recs = << >> THEN None
                                      ELSE Len(recs[1][2])]

C10_FailedBuildIsAtomic == [][C10_Step]_vars

C10_Witness ==
    /\ AfterRead
    /\ outcome.err = "SequenceLengthMismatchError"
    /\ DOMAIN Species(objs, heap, "A") # {}

(***************************************************************************)
(* Projection: an Alignment A built from the record list of the run, and   *)
(* S = SubsetAlignment(A or S, columns of the run); either is rebuilt.     *)
(* Columns are offsets from 0; MaxSeqLen itself is past every sequence.    *)
(***************************************************************************)
RECURSIVE Alternating(_, _, _)
Alternating(c, d, n) ==
    IF n = 0 THEN << >> ELSE <<c>> \o Alternating(d, c, n - 1)

SubsetSeqs ==
    {Alternating("A", "C", n) : n \in 1..MaxSeqLen}
    \cup {Alternating("C", "A", n) : n \in 1..MaxSeqLen}

SubsetNames == {<<(<<"a", "b", "c", "d">>)[i]>> : i \in 1..MaxSpecies}

(* record lists from_parser_output accepts, and the empty list *)
SourceLists ==
    {l \in Lists(SubsetNames \X SubsetSeqs, MaxSpecies) :
        FirstRepeat(l) = 0 /\ FirstOdd(l) = 0}

ColumnLists == Lists(0..MaxSeqLen, MaxCols)

SubsetInputs ==
    {[recs |-> recs, dcount |-> 0, dlen |-> 0, layout |-> "absent", cols |-> cols] :
        recs \in SourceLists, cols \in ColumnLists}

NoObjects ==
    /\ objs = << >>
    /\ heap = << >>
    /\ file = NoFile
    /\ outcome = Started

InitSubset == input \in SubsetInputs /\ NoObjects

NextSubset ==
    \/ New("A")
    \/ \E o \in {"A", "S"} : FromParserOutput(o, input.recs)
    \/ \E source \in {"A", "S"} : Project(source, input.cols)

SpecSubset == InitSubset /\ [][NextSubset]_vars

(***************************************************************************)
(* The whole life of the objects: creating, building, reading, writing,    *)
(* projecting, with a text given at the path or written by the program.    *)
(***************************************************************************)
LifeLists == Lists({na, nb} \X {<<"A", "C">>, <<"C">>}, MaxSpecies)

LifeColumns == {<< >>, <<0>>, <<1, 0>>, <<2>>}

LifeInputs ==
    {[recs |-> recs, dcount |-> 0, dlen |-> 0, layout |-> layout, cols |-> cols] :
        recs \in LifeLists \ {<< >>}, layout \in {"plain"}, cols \in LifeColumns}
    \cup
    {[recs |-> << >>, dcount |-> 0, dlen |-> 0, layout |-> "absent", cols |-> cols] :
        cols \in LifeColumns}

Init == input \in LifeInputs /\ NoObjects

Next ==
    \/ New("A")
    \/ \E o \in {"A", "S"} : FromParserOutput(o, input.recs)
    \/ \E o \in {"A", "S"} : Read(o)
    \/ \E o \in {"A", "S"} : Write(o)
    \/ \E source \in {"A", "S"} : Project(source, input.cols)
    \/ PutFile
    \/ RemoveFile

Spec == Init /\ [][Next]_vars

(***************************************************************************)
(* Round trip: A is built from the record list of the run and written; B   *)
(* reads what was written.  The lists are those from_parser_output accepts *)
(* with identifiers and sequences of the grammar; identifiers of 1, 99 and *)
(* 100 characters.                                                         *)
(***************************************************************************)
RoundTripNames ==
    {Rep("a", n) : n \in {1, NAME_WRITTEN, NAME_MAX}}
    \cup {Rep("a", NAME_WRITTEN) \o <<"b">>}

RoundTripRecords == RoundTripNames \X ReadSeqs

RoundTripLists ==
    {<<r>> : r \in RoundTripRecords}
    \cup
    {<<p[1], p[2]>> :
        p \in {x \in RoundTripRecords \X RoundTripRecords :
                  x[1][1] # x[2][1] /\ Len(x[1][2]) = Len(x[2][2])}}

RoundTripInputs ==
    {[recs |-> recs, dcount |-> 0, dlen |-> 0, layout |-> "absent", cols |-> << >>] :
        recs \in RoundTripLists}

InitRoundTrip == input \in RoundTripInputs /\ NoObjects

NextRoundTrip ==
    \/ \E o \in {"A", "B"} : New(o)
    \/ FromParserOutput("A", input.recs)
    \/ Write("A")
    \/ Read("B")

SpecRoundTrip == InitRoundTrip /\ [][NextRoundTrip]_vars

same_as(self, other) ==
    /\ self.sequence_len = other.sequence_len
    /\ self.species = other.species

(***************************************************************************)
(* C1: an Alignment A built from unique identifiers of the grammar, up to  *)
(* 100 characters long, and sequences of equal length, written to the file *)
(* and read back into B, gives B.same_as(A).  The code writes only the     *)
(* first 99 characters of an identifier.                                   *)
(***************************************************************************)
ReadBack ==
    /\ outcome.op = "read" /\ outcome.obj = "B"
    /\ file.exists /\ file.by = "A"
    /\ "A" \in DOMAIN objs
    /\ DOMAIN Species(objs, heap, "A") # {}
    /\ file.text \in {PhylipText(Species(objs, heap, "A"), order) :
                         order \in Orders(Species(objs, heap, "A"))}

C1_RoundTrip ==
    ReadBack =>
        /\ outcome.err = "ok"
        /\ same_as(Content(objs, heap, "B"), Content(objs, heap, "A"))

(***************************************************************************)
(* C2: a projection whose largest column is not below the sequence_len of  *)
(* a source holding species fails with the column-out-of-range error, and  *)
(* in no other way.  The code lets a column equal to sequence_len through. *)
(***************************************************************************)
Projected == outcome.op = "project" /\ outcome.src = "A"

C2_SubsetBounds ==
    /\ Projected
    /\ DOMAIN Species(objs, heap, "A") # {}
    /\ \E j \in DOMAIN outcome.cols : outcome.cols[j] >= objs["A"].sequence_len
    => outcome.err = "ColumnOutOfRangeError"

(***************************************************************************)
(* C3 as stated: for a source with at least one species and any sequence   *)
(* of columns all below its sequence_len, the projection succeeds with the *)
(* identifiers of the source, each sequence holding at position j the      *)
(* source character at columns[j], and sequence_len = len(columns).        *)
(* Refuted by the empty column list, of which the code takes the max.      *)
(***************************************************************************)
InRange ==
    /\ Projected
    /\ DOMAIN Species(objs, heap, "A") # {}
    /\ \A j \in DOMAIN outcome.cols : outcome.cols[j] < objs["A"].sequence_len

IsProjection ==
    /\ outcome.err = "ok"
    /\ DOMAIN Species(objs, heap, "S") = DOMAIN Species(objs, heap, "A")
    /\ \A n \in DOMAIN Species(objs, heap, "S") :
          /\ Len(Species(objs, heap, "S")[n]) = Len(outcome.cols)
          /\ \A j \in DOMAIN outcome.cols :
                Species(objs, heap, "S")[n][j]
                    = Species(objs, heap, "A")[n][outcome.cols[j] + 1]
    /\ objs["S"].sequence_len = Len(outcome.cols)

C3_AsStated == InRange => IsProjection

(***************************************************************************)
(* C3 amended: the same, for every non-empty sequence of columns.          *)
(***************************************************************************)
C3_SubsetCorrectness == InRange /\ outcome.cols # << >> => IsProjection

C3_Witness ==
    /\ InRange /\ outcome.err = "ok"
    /\ Len(outcome.cols) = 2 /\ outcome.cols[1] > outcome.cols[2]
    /\ Cardinality(DOMAIN Species(objs, heap, "S")) = 2
    /\ \E n \in DOMAIN Species(objs, heap, "S") :
          Species(objs, heap, "S")[n][1] # Species(objs, heap, "S")[n][2]

(***************************************************************************)
(* C4 as stated: every Alignment that exists has species non-empty and     *)
(* every stored sequence of length sequence_len.  Refuted by the object    *)
(* Alignment() creates.                                                    *)
(***************************************************************************)
Uniform(o) ==
    \A n \in DOMAIN Species(objs, heap, o) :
        Len(Species(objs, heap, o)[n]) = objs[o].sequence_len

C4_AsStated ==
    \A o \in DOMAIN objs : DOMAIN Species(objs, heap, o) # {} /\ Uniform(o)

(***************************************************************************)
(* C4 amended: every Alignment that exists has every stored sequence of    *)
(* length sequence_len; species is non-empty in the Alignment a successful *)
(* read, a successful projection or a successful build from a non-empty    *)
(* record list leaves; a created Alignment and one built from the empty    *)
(* list hold no species, with sequence_len 0 and None.                     *)
(***************************************************************************)
C4_EntityInvariant ==
    /\ \A o \in DOMAIN objs :
          /\ Uniform(o)
          /\ DOMAIN Species(objs, heap, o) = {} => objs[o].sequence_len \in {0, None}
    /\ outcome.err = "ok" =>
          /\ outcome.op \in {"read", "project"}
                => DOMAIN Species(objs, heap, outcome.obj) # {}
          /\ outcome.op = "build" =>
                (DOMAIN Species(objs, heap, outcome.obj) = {} <=> outcome.recs = << >>)
          /\ outcome.op = "new" => Content(objs, heap, outcome.obj)
                                      = [species |-> EmptyDict, sequence_len |-> 0]

C4_Witness ==
    /\ outcome.op = "read" /\ outcome.err = "ok" /\ outcome.obj = "A"
    /\ "S" \in DOMAIN objs
    /\ objs["S"].sequence_len = 2
    /\ Cardinality(DOMAIN Species(objs, heap, "A")) = 2

(***************************************************************************)
(* C8: a projection, succeeding or failing, leaves the species and         *)
(* sequence_len of its source as they were; the Subset Alignment has a     *)
(* mapping of its own, and a later rebuild of either object leaves the     *)
(* other as it was.                                                        *)
(***************************************************************************)
C8_Step ==
    /\ outcome'.op = "project" =>
          /\ \A o \in DOMAIN objs :
                o # "S" \/ outcome'.err # "ok"
                    => /\ o \in DOMAIN objs'
                       /\ Content(objs', heap', o) = Content(objs, heap, o)
          /\ outcome'.err = "ok" =>
                \A o \in DOMAIN objs' \ {"S"} : objs'[o].species # objs'["S"].species
    /\ outcome'.op \in {"build", "new"} =>
          \A o \in DOMAIN objs \ {outcome'.obj} :
              /\ o \in DOMAIN objs'
              /\ Content(objs', heap', o) = Content(objs, heap, o)

C8_SourceUnchanged == [][C8_Step]_vars

C8_Witness ==
    /\ outcome.op = "build" /\ outcome.obj = "A" /\ outcome.err = "ok"
    /\ "S" \in DOMAIN objs
    /\ objs["A"].sequence_len = 2
    /\ Content(objs, heap, "S")
          = [species |-> [n \in DOMAIN Species(objs, heap, "A") |->
                            <<Species(objs, heap, "A")[n][2]>>],
             sequence_len |-> 1]
====
